---------------------------- MODULE Spec2Model ----------------------------
(***************************************************************************)
(* VelocityChip backend (src/velocitychip-backend.js): the design store,   *)
(* the WebSocket observers, the registry of active simulations with their  *)
(* interval and auto-stop timers, and the CircuitSimulator's simulate().   *)
(*                                                                         *)
(* Objects are modelled by reference where the code shares them: a         *)
(* component array lives in `heap` and both a stored design and every      *)
(* simulator built from it hold its reference (the constructor stores the  *)
(* array it is given, it does not copy it).                                *)
(***************************************************************************)
EXTENDS Integers, Sequences, FiniteSets, TLC

VARIABLES
  designs,     \* Map designs: design id -> stored design (or NoDesign)
  heap,        \* component arrays by reference: ref -> sequence of components
  clients,     \* Map clients: the client ids whose socket is registered
  conn,        \* life cycle of each connection: "new", "open", "closed"
  sims,        \* CircuitSimulator objects by identity: sim id -> fields
  active,      \* Map activeSimulations: client id -> registry entry
  intervals,   \* live setInterval timers, named by the simulator they tick
  timeouts,    \* pending auto-stop setTimeout timers, named by their start
  stopped,     \* history: stop has returned for the client, no start since
  sent,        \* WebSocket messages sent by the last handler, in order
  response,    \* HTTP response produced by the last handler
  lastOp,      \* history: the handler that ran last
  analysis,    \* record returned by the last direct call of analyzeComponent
  returned,    \* the last direct call of another model function: its
               \* arguments and the value it returned
  crashed      \* an exception reached the event loop: the process is gone

vars == << designs, heap, clients, conn, sims, active, intervals, timeouts,
           stopped, sent, response, lastOp, analysis, returned, crashed >>

---------------------------------------------------------------------------
(* Bounds of the model *)

NumClients == 2
NumDesigns == 1
MaxArrays == 2
MaxSims == 2
MaxSteps == 1
MaxBatchSteps == 3
MaxStreamSteps == 3
MaxVolts == 60
MaxAmps == 15

ClientIds == 1..NumClients
DesignIds == 1..NumDesigns
UnknownDesign == 0

---------------------------------------------------------------------------
(* Values *)

\* A property a properties object does not have (JavaScript undefined).
Absent == -1

PropKeys == {"resistance", "capacitance"}

NoProps == [k \in PropKeys |-> Absent]

Comp(id, type, hasProps, props) ==
  [id |-> id, type |-> type, hasProps |-> hasProps, properties |-> props]

Resistor1 == Comp(1, "resistor", TRUE, [NoProps EXCEPT !["resistance"] = 1000])
Capacitor2 == Comp(2, "capacitor", TRUE, [NoProps EXCEPT !["capacitance"] = 5])
\* components whose JSON carries no "properties" member
BareCapacitor2 == Comp(2, "capacitor", FALSE, NoProps)
BareResistor1 == Comp(1, "resistor", FALSE, NoProps)

\* The bodies of the POST /api/designs requests of the model: the component
\* list and the number of connections.
DesignInputs ==
  { [components |-> << >>, connections |-> 1],
    [components |-> << BareResistor1, Capacitor2 >>, connections |-> 1],
    [components |-> << Resistor1, BareCapacitor2 >>, connections |-> 1] }

\* The components members of the PUT /api/designs/:id requests.
ComponentLists == { << Resistor1 >> }

\* The bodies of the PUT /api/designs/:id requests: a component list and a
\* connection list of two entries.
PutInputs == { [components |-> comps, connections |-> 2] :
                 comps \in ComponentLists }

\* A design id that holds no design; used records that its uuid was handed
\* out before (uuidv4 never returns it again).
NoDesign == [exists |-> FALSE, used |-> FALSE, components |-> 0, connections |-> 0]

DeletedDesign == [NoDesign EXCEPT !.used = TRUE]

\* Step counters are JavaScript numbers; the model keeps them in thousandths
\* (the batch handler's default step size is 0.001).
Milli == 1000

NoSession == [simulator |-> 0, interval |-> 0, updateRate |-> 0, duration |-> 0]

\* No HTTP response; a response carries its status, its error text, and for
\* a batch run simulationResults with metadata.steps and metadata.timeStep.
NoResponse ==
  [status |-> 0, error |-> "", results |-> << >>, steps |-> 0, timeStep |-> 0,
   body |-> << >>]

DefaultUpdateRate == 100
DefaultDuration == 30000

\* The config member of a start_simulation request: missing, complete, or
\* without a duration.
ConfigInputs ==
  { [present |-> FALSE, updateRate |-> Absent, duration |-> Absent],
    [present |-> TRUE, updateRate |-> 500, duration |-> 2000],
    [present |-> TRUE, updateRate |-> 500, duration |-> Absent] }

\* The properties member of an update_component request.
UpdateInputs == { [NoProps EXCEPT !["resistance"] = 2000] }

UpdateComponentIds == {1, 2, 9}

\* The values Date.now() returns to the handlers of the model, in ms.
WallClock == {1000, 1500}

---------------------------------------------------------------------------
(* CircuitSimulator *)

\* new CircuitSimulator(designId, components, connections): the simulator
\* keeps the array it is handed (a reference, not a copy).
NewSimulator(client, designId, design) ==
  [client |-> client, designId |-> designId,
   components |-> design.components, connections |-> design.connections,
   isRunning |-> FALSE, timeStep |-> 0]

\* component.properties.<key> raises a TypeError when the component has no
\* properties object; each model function reads it for the types below.
CalculateNodeVoltageThrows(comp) ==
  /\ comp.type \in {"transistor", "resistor", "capacitor", "inductor", "diode"}
  /\ ~comp.hasProps

CalculateCurrentThrows(comp) ==
  /\ comp.type \in {"transistor", "resistor", "capacitor", "inductor"}
  /\ ~comp.hasProps

CalculateFrequencyThrows(comp) ==
  comp.type = "capacitor" /\ ~comp.hasProps

AnalyzeComponentThrows(comp) ==
  comp.type \in {"resistor", "capacitor"} /\ ~comp.hasProps

\* The body of the try block of simulate() raises for this component.
EvaluationFails(comp) ==
  \/ CalculateNodeVoltageThrows(comp)
  \/ CalculateCurrentThrows(comp)
  \/ CalculateFrequencyThrows(comp)
  \/ AnalyzeComponentThrows(comp)

\* A frequency value: the law it comes from, the law's constant term, the
\* capacitance the capacitor law divides by, and the call of
\* calculateFrequency whose Math.random() draw it adds ("none": no draw).
Frequency(law, base, capacitance, draw) ==
  [law |-> law, base |-> base, capacitance |-> capacitance, draw |-> draw]

\* The records the catch block of simulate() stores.
ErrorNode ==
  [voltage |-> 0, current |-> 0, power |-> 0, temperature |-> 25,
   frequency |-> Frequency("constant", 1000, Absent, "none")]

ErrorAnalysis ==
  [operatingPoint |-> [voltage |-> 0, current |-> 0, power |-> 0],
   status |-> "error"]

\* parseFloat(value) || fallback: a missing property parses to NaN and a
\* zero is falsy, so both take the fallback.
ParseFloatOr(value, fallback) ==
  IF value = Absent \/ value = 0 THEN fallback ELSE value

\* 1000 ohm; the capacitance fallback 1e-12 F is 1 in the model's picofarads.
DefaultResistance == 1000
DefaultCapacitance == 1

PropDefault(k) ==
  IF k = "resistance" THEN DefaultResistance ELSE DefaultCapacitance

\* The properties the voltage, current and frequency laws of a type use.
LawReads(type) ==
  IF type = "resistor" THEN {"resistance"}
  ELSE IF type = "capacitor" THEN {"capacitance"}
  ELSE {}

\* The types whose voltage law has a term in Date.now().
TimeDependentTypes == {"transistor", "capacitor", "inductor"}

\* The property values a component's laws are evaluated with.
NodeReads(comp) ==
  [k \in PropKeys |->
     IF k \in LawReads(comp.type)
     THEN ParseFloatOr(comp.properties[k], PropDefault(k))
     ELSE Absent]

\* calculateCurrent(component, voltage): the voltage over the resistance
\* read for a resistor and over 1000 for a type without a law of its own;
\* the transistor, capacitor and inductor laws are kept by name.
CalculateCurrent(comp) ==
  [law |-> comp.type,
   voltageOver |->
     IF comp.type = "resistor"
     THEN ParseFloatOr(comp.properties["resistance"], DefaultResistance)
     ELSE IF comp.type \in {"transistor", "capacitor", "inductor"}
     THEN Absent
     ELSE 1000]

\* Mutant of NodePower: the voltage squared.
NodePower_VoltageSquared == [product |-> << "voltage", "voltage" >>]

\* const power = nodeVoltage * current
NodePower == [product |-> << "voltage", "current" >>]

\* calculateFrequency(component), called at `call`: 10000 plus a draw for a
\* transistor, 1/(2 pi 1000 c) for a capacitor, 1000 plus a draw otherwise.
CalculateFrequency(comp, call) ==
  IF comp.type = "transistor"
  THEN Frequency("transistor", 10000, Absent, call)
  ELSE IF comp.type = "capacitor"
  THEN Frequency("capacitor", Absent,
                 ParseFloatOr(comp.properties["capacitance"],
                              DefaultCapacitance), "none")
  ELSE Frequency("base", 1000, Absent, call)

\* The records of a component whose models all returned. Their numbers are
\* those of the type's law at the property values read and, for a time
\* dependent law, at the time argument timeMs = Date.now(); the model keeps
\* the voltage as its law, the values read and the time argument, and the
\* current, power and frequency as terms over it.
ComputedNode(comp, now) ==
  [law |-> comp.type, reads |-> NodeReads(comp),
   time |-> IF comp.type \in TimeDependentTypes THEN now ELSE Absent,
   current |-> CalculateCurrent(comp),
   power |-> NodePower,
   frequency |-> CalculateFrequency(comp, "nodes")]

ComputedAnalysis(comp) ==
  [operatingPoint |-> [law |-> comp.type], status |-> "computed"]

\* The performance record of a design without components.
ZeroPerformance ==
  [totalPower |-> 0, maxVoltage |-> 0, maxCurrent |-> 0, efficiency |-> 0,
   propagationDelay |-> 0, bandwidth |-> 0]

\* calculatePropagationDelay(): 10 ps a component, 5 ps a connection, as
\* the exact number (the rounding of the double arithmetic is left out).
CalculatePropagationDelay(comps, connections) ==
  Len(comps) * 10 + connections * 5

CompIdsOf(comps) == { comps[i].id : i \in DOMAIN comps }

\* the last component of the list with this id (a later forEach iteration
\* overwrites results.nodes[comp.id])
CompWithId(comps, id) ==
  comps[CHOOSE i \in DOMAIN comps :
          /\ comps[i].id = id
          /\ \A j \in DOMAIN comps : comps[j].id = id => j <= i]

\* calculateBandwidth() evaluates calculateFrequency for every component
\* again, outside the try block.
CalculateBandwidthThrows(comps) ==
  \E i \in DOMAIN comps : CalculateFrequencyThrows(comps[i])

\* results.nodes after the forEach of simulate()
Nodes(comps, now) ==
  [id \in CompIdsOf(comps) |->
     IF EvaluationFails(CompWithId(comps, id))
     THEN ErrorNode
     ELSE ComputedNode(CompWithId(comps, id), now)]

\* The performance record of the general path: totalPower is the sum of
\* node.power || 0 over the node records, bandwidth the maximum of
\* calculateFrequency(comp) evaluated again for every component; the
\* maxima and the efficiency are computed over numbers by MaxOf and
\* CalculateEfficiency.
Performance(comps, connections, nodes) ==
  [totalPower |-> [sumOf |-> [id \in DOMAIN nodes |-> nodes[id].power]],
   propagationDelay |-> CalculatePropagationDelay(comps, connections),
   bandwidth |-> [maxOf |-> [i \in DOMAIN comps |->
                              CalculateFrequency(comps[i], "bandwidth")]]]

\* Mutant of Simulate: a design without components takes the general path.
Simulate_NoEmptyPath(comps, connections, timeStep, now) ==
  [threw |-> CalculateBandwidthThrows(comps),
   timestamp |-> now, timeStep |-> timeStep, empty |-> FALSE,
   nodes |-> Nodes(comps, now),
   components |-> [id \in CompIdsOf(comps) |->
                IF EvaluationFails(CompWithId(comps, id))
                THEN ErrorAnalysis
                ELSE ComputedAnalysis(CompWithId(comps, id))],
   performance |-> Performance(comps, connections, Nodes(comps, now))]

\* simulate() on a simulator whose component list is comps, whose
\* connection list has `connections` entries and whose step counter is
\* timeStep, called when Date.now() is `now`: the snapshot, or threw = TRUE
\* when an exception leaves simulate(). The step counter is advanced in
\* both cases.
Simulate(comps, connections, timeStep, now) ==
  IF Len(comps) = 0
  THEN [threw |-> FALSE, timestamp |-> now, timeStep |-> timeStep,
        empty |-> TRUE,
        nodes |-> [id \in {} |-> ErrorNode],
        components |-> [id \in {} |-> ErrorAnalysis],
        performance |-> ZeroPerformance]
  ELSE [threw |-> CalculateBandwidthThrows(comps),
        timestamp |-> now, timeStep |-> timeStep, empty |-> FALSE,
        nodes |-> Nodes(comps, now),
        components |-> [id \in CompIdsOf(comps) |->
                     IF EvaluationFails(CompWithId(comps, id))
                     THEN ErrorAnalysis
                     ELSE ComputedAnalysis(CompWithId(comps, id))],
        performance |-> Performance(comps, connections, Nodes(comps, now))]

\* The thresholds of the transistor status, 5 and 0.1, in the units of the
\* model: tenths for a voltage, hundredths for a current.
OverVoltage == 50
OverCurrent == 10

\* Mutant of AnalyzeTransistor: the current is tested first, so that
\* overvoltage overwrites overcurrent.
AnalyzeTransistor_OvervoltageWins(voltage, current) ==
  LET status1 == IF current > OverCurrent THEN "overcurrent" ELSE "normal"
      status2 == IF voltage > OverVoltage THEN "overvoltage" ELSE status1
  IN [voltage |-> voltage, current |-> current, status |-> status2]

\* analyzeComponent(component, voltage, current) for a transistor: status
\* starts as 'normal'; if (voltage > 5) it becomes 'overvoltage'; then
\* if (current > 0.1) it becomes 'overcurrent'.
AnalyzeTransistor(voltage, current) ==
  LET status1 == IF voltage > OverVoltage THEN "overvoltage" ELSE "normal"
      status2 == IF current > OverCurrent THEN "overcurrent" ELSE status1
  IN [voltage |-> voltage, current |-> current, status |-> status2]

\* const vth = 0.7 of calculateCurrent, in tenths
Vth == 7

\* calculateCurrent(component, voltage) for a transistor whose properties
\* have this threshold: the square-law current with vth when the voltage
\* is above vth, and otherwise the leakage 0.001 + Math.random() * 0.0001,
\* whose least value is 1 thousandth. The threshold property is not read.
TransistorCurrent(threshold, voltage) ==
  IF voltage > Vth
  THEN [law |-> "square", vth |-> Vth, atLeast |-> Absent]
  ELSE [law |-> "leakage", vth |-> Absent, atLeast |-> 1]

\* No direct call of a model function yet.
NoCall == [fn |-> "none"]

\* No call of analyzeComponent yet.
NoAnalysis == [voltage |-> 0, current |-> 0, status |-> "none"]

---------------------------------------------------------------------------
(* Messages *)

ErrorMsg(c, text) == [to |-> c, type |-> "error", error |-> text]

StartedMsg(c, designId, entry) ==
  [to |-> c, type |-> "simulation_started", designId |-> designId,
   updateRate |-> entry.updateRate, duration |-> entry.duration]

\* Mutant of DataMsg: the snapshot goes to the next client of the map.
DataMsg_ToNextClient(c, s, results) ==
  [to |-> (c % NumClients) + 1, type |-> "simulation_data", from |-> s,
   data |-> results]

DataMsg(c, s, results) ==
  [to |-> c, type |-> "simulation_data", from |-> s, data |-> results]

StoppedMsg(c) == [to |-> c, type |-> "simulation_stopped"]

UpdatedMsg(c, componentId, properties) ==
  [to |-> c, type |-> "component_updated", componentId |-> componentId,
   properties |-> properties]

\* The handler that ran last: its name, the client it served (0 for an HTTP
\* request) and the id its request named (a design, a component, a timer).
Op(name, c, arg) == [op |-> name, client |-> c, arg |-> arg]

---------------------------------------------------------------------------
(* Initial state: the module has just been loaded *)

Init ==
  /\ designs = [d \in DesignIds |-> NoDesign]
  /\ heap = << >>
  /\ clients = {}
  /\ conn = [c \in ClientIds |-> "new"]
  /\ sims = << >>
  /\ active = [c \in ClientIds |-> NoSession]
  /\ intervals = {}
  /\ timeouts = {}
  /\ stopped = [c \in ClientIds |-> FALSE]
  /\ sent = << >>
  /\ response = NoResponse
  /\ lastOp = Op("init", 0, 0)
  /\ analysis = NoAnalysis
  /\ returned = NoCall
  /\ crashed = FALSE

\* designs.get(id)
DesignsGet(id) == IF id \in DesignIds THEN designs[id] ELSE NoDesign

\* The starts whose auto-stop timeout has fired: every start schedules one.
Elapsed == DOMAIN sims \ timeouts

\* activeSimulations.get(clientId) is defined
HasSession(c) == active[c].simulator # 0

---------------------------------------------------------------------------
(* WebSocket connection life cycle *)

\* wss.on('connection'): a fresh client id is registered.
Connect(c) ==
  /\ ~crashed
  /\ conn[c] = "new"
  /\ conn' = [conn EXCEPT ![c] = "open"]
  /\ clients' = clients \cup {c}
  /\ sent' = << >>
  /\ response' = NoResponse
  /\ UNCHANGED << analysis, returned >>
  /\ lastOp' = Op("connect", c, 0)
  /\ UNCHANGED << designs, heap, sims, active, intervals, timeouts, stopped, crashed >>

\* Mutant of CloseEffect: a close drops every session of the registry.
CloseEffect_DropsAllSessions(c) ==
  /\ clients' = clients \ {c}
  /\ active' = [b \in ClientIds |-> NoSession]
  /\ intervals' = {}
  /\ UNCHANGED sims

\* ws.on('close'): the client is removed from the clients map.
CloseEffect(c) ==
  /\ clients' = clients \ {c}
  /\ UNCHANGED << sims, active, intervals >>

Close(c) ==
  /\ ~crashed
  /\ conn[c] = "open"
  /\ conn' = [conn EXCEPT ![c] = "closed"]
  /\ CloseEffect(c)
  /\ sent' = << >>
  /\ response' = NoResponse
  /\ UNCHANGED << analysis, returned >>
  /\ lastOp' = Op("close", c, 0)
  /\ UNCHANGED << designs, heap, timeouts, stopped, crashed >>

\* Mutant of MessageCatch: the connection is closed after the error.
MessageCatch_ClosesConnection(c) ==
  /\ sent' = << ErrorMsg(c, "Invalid JSON") >>
  /\ conn' = [conn EXCEPT ![c] = "closed"]
  /\ clients' = clients \ {c}

\* The catch block of ws.on('message'): the error is sent on the socket of
\* the message.
MessageCatch(c) ==
  /\ sent' = << ErrorMsg(c, "Invalid JSON") >>
  /\ UNCHANGED << clients, conn >>

\* ws.on('message') with a message JSON.parse rejects: the handler of the
\* message type is never called.
InvalidMessage(c) ==
  /\ ~crashed
  /\ conn[c] = "open"
  /\ MessageCatch(c)
  /\ response' = NoResponse
  /\ UNCHANGED << analysis, returned >>
  /\ lastOp' = Op("invalid_message", c, 0)
  /\ UNCHANGED << designs, heap, sims, active, intervals, timeouts, stopped,
                  crashed >>

---------------------------------------------------------------------------
(* Streaming: start, tick, stop, update *)

\* config || { updateRate: 100, duration: 30000 }
EffectiveConfig(config) ==
  IF config.present
  THEN [updateRate |-> config.updateRate, duration |-> config.duration]
  ELSE [updateRate |-> DefaultUpdateRate, duration |-> DefaultDuration]

\* Mutant of StartRealTimeSimulation: the registry entry of the client is
\* dropped before the design is looked up.
StartRealTimeSimulation_DropsEntryFirst(c, designId, config) ==
  LET design == DesignsGet(designId)
      s == Len(sims) + 1
      cfg == EffectiveConfig(config)
      entry == [simulator |-> s, interval |-> s,
                updateRate |-> cfg.updateRate, duration |-> cfg.duration]
  IN IF ~design.exists
     THEN /\ sent' = << ErrorMsg(c, "Design not found") >>
          /\ active' = [active EXCEPT ![c] = NoSession]
          /\ UNCHANGED << sims, intervals, timeouts, stopped >>
     ELSE /\ Len(sims) < MaxSims
          /\ sims' = Append(sims, [NewSimulator(c, designId, design)
                                     EXCEPT !.isRunning = TRUE])
          /\ active' = [active EXCEPT ![c] = entry]
          /\ intervals' = intervals \cup {s}
          /\ timeouts' = timeouts \cup {s}
          /\ stopped' = [stopped EXCEPT ![c] = FALSE]
          /\ sent' = << StartedMsg(c, designId, entry) >>

\* startRealTimeSimulation(clientId, designId, config, ws)
StartRealTimeSimulation(c, designId, config) ==
  LET design == DesignsGet(designId)
      s == Len(sims) + 1
      cfg == EffectiveConfig(config)
      entry == [simulator |-> s, interval |-> s,
                updateRate |-> cfg.updateRate, duration |-> cfg.duration]
  IN IF ~design.exists
     THEN /\ sent' = << ErrorMsg(c, "Design not found") >>
          /\ UNCHANGED << sims, active, intervals, timeouts, stopped >>
     ELSE /\ Len(sims) < MaxSims
          /\ sims' = Append(sims, [NewSimulator(c, designId, design)
                                     EXCEPT !.isRunning = TRUE])
          /\ active' = [active EXCEPT ![c] = entry]
          /\ intervals' = intervals \cup {s}
          /\ timeouts' = timeouts \cup {s}
          /\ stopped' = [stopped EXCEPT ![c] = FALSE]
          /\ sent' = << StartedMsg(c, designId, entry) >>

StartMessage(c, designId, config) ==
  /\ ~crashed
  /\ conn[c] = "open"
  /\ StartRealTimeSimulation(c, designId, config)
  /\ response' = NoResponse
  /\ UNCHANGED << analysis, returned >>
  /\ lastOp' = Op("start_simulation", c, designId)
  /\ UNCHANGED << designs, heap, clients, conn, crashed >>

\* Mutant of StopRealTimeSimulation: simulation_stopped is sent whether or
\* not the client had a session.
StopRealTimeSimulation_AlwaysNotifies(c) ==
  /\ sent' = IF c \in clients THEN << StoppedMsg(c) >> ELSE << >>
  /\ IF HasSession(c)
     THEN /\ sims' = [sims EXCEPT ![active[c].simulator].isRunning = FALSE]
          /\ intervals' = intervals \ {active[c].interval}
          /\ active' = [active EXCEPT ![c] = NoSession]
     ELSE UNCHANGED << sims, intervals, active >>

\* stopRealTimeSimulation(clientId)
StopRealTimeSimulation(c) ==
  IF HasSession(c)
  THEN /\ sims' = [sims EXCEPT ![active[c].simulator].isRunning = FALSE]
       /\ intervals' = intervals \ {active[c].interval}
       /\ active' = [active EXCEPT ![c] = NoSession]
       /\ sent' = IF c \in clients THEN << StoppedMsg(c) >> ELSE << >>
  ELSE /\ sent' = << >>
       /\ UNCHANGED << sims, intervals, active >>

StopMessage(c) ==
  /\ ~crashed
  /\ conn[c] = "open"
  /\ StopRealTimeSimulation(c)
  /\ stopped' = [stopped EXCEPT ![c] = TRUE]
  /\ response' = NoResponse
  /\ UNCHANGED << analysis, returned >>
  /\ lastOp' = Op("stop_simulation", c, 0)
  /\ UNCHANGED << designs, heap, clients, conn, timeouts, crashed >>

\* The setTimeout callback of the start that created simulator s: it stops
\* whatever session its client has now.
AutoStop(s) ==
  /\ ~crashed
  /\ s \in timeouts
  /\ timeouts' = timeouts \ {s}
  /\ StopRealTimeSimulation(sims[s].client)
  /\ stopped' = [stopped EXCEPT ![sims[s].client] = TRUE]
  /\ response' = NoResponse
  /\ UNCHANGED << analysis, returned >>
  /\ lastOp' = Op("auto_stop", sims[s].client, s)
  /\ UNCHANGED << designs, heap, clients, conn, crashed >>

\* Mutant of Tick: simulate() advances the step counter by two.
Tick_SkipsStep(s, now) ==
  /\ ~crashed
  /\ s \in intervals
  /\ LET sim == sims[s]
         results == Simulate(heap[sim.components], sim.connections,
                             sim.timeStep, now)
     IN IF sim.isRunning
        THEN /\ sims' = [sims EXCEPT ![s].timeStep = @ + 2 * Milli]
             /\ crashed' = results.threw
             /\ sent' = IF ~results.threw /\ sim.client \in clients
                        THEN << DataMsg(sim.client, s, results) >>
                        ELSE << >>
        ELSE /\ sent' = << >>
             /\ UNCHANGED << sims, crashed >>
  /\ response' = NoResponse
  /\ UNCHANGED << analysis, returned >>
  /\ lastOp' = Op("tick", sims[s].client, s)
  /\ UNCHANGED << designs, heap, clients, conn, active, intervals, timeouts,
                  stopped >>

\* The setInterval callback of simulator s. An exception leaving simulate()
\* is uncaught in a timer callback: the process exits.
Tick(s, now) ==
  /\ ~crashed
  /\ s \in intervals
  /\ LET sim == sims[s]
         results == Simulate(heap[sim.components], sim.connections,
                             sim.timeStep, now)
     IN IF sim.isRunning
        THEN /\ sims' = [sims EXCEPT ![s].timeStep = @ + Milli]
             /\ crashed' = results.threw
             /\ sent' = IF ~results.threw /\ sim.client \in clients
                        THEN << DataMsg(sim.client, s, results) >>
                        ELSE << >>
        ELSE /\ sent' = << >>
             /\ UNCHANGED << sims, crashed >>
  /\ response' = NoResponse
  /\ UNCHANGED << analysis, returned >>
  /\ lastOp' = Op("tick", sims[s].client, s)
  /\ UNCHANGED << designs, heap, clients, conn, active, intervals, timeouts,
                  stopped >>

\* Mutant of ObjectAssign: the source's members are not copied.
ObjectAssign_KeepsTarget(target, source) == target

\* Object.assign(target, source)
ObjectAssign(target, source) ==
  [k \in PropKeys |-> IF source[k] # Absent THEN source[k] ELSE target[k]]

\* components.find(c => c.id === componentId): the index, 0 when none
FindComponent(comps, componentId) ==
  IF \E i \in DOMAIN comps : comps[i].id = componentId
  THEN CHOOSE i \in DOMAIN comps :
         /\ comps[i].id = componentId
         /\ \A j \in DOMAIN comps : comps[j].id = componentId => i <= j
  ELSE 0

\* Mutant of UpdateComponentInSimulation: the acknowledgment is sent for
\* every client with a session, whether or not the component was found.
UpdateComponentInSimulation_AcksUnknown(c, componentId, properties) ==
  IF HasSession(c)
  THEN LET ref == sims[active[c].simulator].components
           i == FindComponent(heap[ref], componentId)
       IN /\ sent' = << UpdatedMsg(c, componentId, properties) >>
          /\ IF i # 0 /\ heap[ref][i].hasProps
             THEN heap' = [heap EXCEPT ![ref][i].properties =
                                         ObjectAssign(@, properties)]
             ELSE UNCHANGED heap
  ELSE /\ sent' = << >>
       /\ UNCHANGED heap

\* updateComponentInSimulation(clientId, componentId, properties); a
\* TypeError from Object.assign on a missing properties object is caught by
\* the message handler, which answers 'Invalid JSON'.
UpdateComponentInSimulation(c, componentId, properties) ==
  IF HasSession(c)
  THEN LET ref == sims[active[c].simulator].components
           i == FindComponent(heap[ref], componentId)
       IN IF i = 0
          THEN /\ sent' = << >>
               /\ UNCHANGED heap
          ELSE IF ~heap[ref][i].hasProps
          THEN /\ sent' = << ErrorMsg(c, "Invalid JSON") >>
               /\ UNCHANGED heap
          ELSE /\ heap' = [heap EXCEPT ![ref][i].properties =
                                         ObjectAssign(@, properties)]
               /\ sent' = IF c \in clients
                          THEN << UpdatedMsg(c, componentId, properties) >>
                          ELSE << >>
  ELSE /\ sent' = << >>
       /\ UNCHANGED heap

UpdateMessage(c, componentId, properties) ==
  /\ ~crashed
  /\ conn[c] = "open"
  /\ UpdateComponentInSimulation(c, componentId, properties)
  /\ response' = NoResponse
  /\ UNCHANGED << analysis, returned >>
  /\ lastOp' = Op("update_component", c, componentId)
  /\ UNCHANGED << designs, clients, conn, sims, active, intervals, timeouts,
                  stopped, crashed >>

---------------------------------------------------------------------------
(* REST handlers of the design store and the one-time simulation *)

NotFound == [NoResponse EXCEPT !.status = 404, !.error = "Design not found"]

Status(code) == [NoResponse EXCEPT !.status = code]

UnusedDesignIds == { d \in DesignIds : ~designs[d].used }

\* POST /api/designs: the request's arrays are stored under a fresh id.
CreateDesign(body) ==
  /\ ~crashed
  /\ Len(heap) < MaxArrays
  /\ UnusedDesignIds # {}
  /\ LET d == CHOOSE x \in UnusedDesignIds : \A y \in UnusedDesignIds : x <= y
     IN designs' = [designs EXCEPT ![d] =
                      [exists |-> TRUE, used |-> TRUE,
                       components |-> Len(heap) + 1,
                       connections |-> body.connections]]
  /\ heap' = Append(heap, body.components)
  /\ response' = Status(201)
  /\ sent' = << >>
  /\ UNCHANGED << analysis, returned >>
  /\ lastOp' = Op("post_design", 0, 0)
  /\ UNCHANGED << clients, conn, sims, active, intervals, timeouts, stopped, crashed >>

\* Mutant of UpdateDesign: the elements of the request's array are copied
\* into the array the design already has.
UpdateDesign_InPlace(id, body) ==
  /\ ~crashed
  /\ IF ~DesignsGet(id).exists
     THEN /\ response' = NotFound
          /\ UNCHANGED << designs, heap >>
     ELSE /\ Len(heap) < MaxArrays
          /\ heap' = [heap EXCEPT ![designs[id].components] = body.components]
          /\ designs' = [designs EXCEPT ![id].connections = body.connections]
          /\ response' = Status(200)
  /\ sent' = << >>
  /\ UNCHANGED << analysis, returned >>
  /\ lastOp' = Op("put_design", 0, id)
  /\ UNCHANGED << clients, conn, sims, active, intervals, timeouts, stopped, crashed >>

\* PUT /api/designs/:id with a components and a connections member:
\* design.components and design.connections are set to the request's
\* arrays.
UpdateDesign(id, body) ==
  /\ ~crashed
  /\ IF ~DesignsGet(id).exists
     THEN /\ response' = NotFound
          /\ UNCHANGED << designs, heap >>
     ELSE /\ Len(heap) < MaxArrays
          /\ heap' = Append(heap, body.components)
          /\ designs' = [designs EXCEPT ![id].components = Len(heap) + 1,
                                        ![id].connections = body.connections]
          /\ response' = Status(200)
  /\ sent' = << >>
  /\ UNCHANGED << analysis, returned >>
  /\ lastOp' = Op("put_design", 0, id)
  /\ UNCHANGED << clients, conn, sims, active, intervals, timeouts, stopped, crashed >>

\* DELETE /api/designs/:id
DeleteDesign(id) ==
  /\ ~crashed
  /\ IF ~DesignsGet(id).exists
     THEN /\ response' = NotFound
          /\ UNCHANGED designs
     ELSE /\ designs' = [designs EXCEPT ![id] = DeletedDesign]
          /\ response' = Status(204)
  /\ sent' = << >>
  /\ UNCHANGED << analysis, returned >>
  /\ lastOp' = Op("delete_design", 0, id)
  /\ UNCHANGED << heap, clients, conn, sims, active, intervals, timeouts,
                  stopped, crashed >>

ServerError == [Status(500) EXCEPT !.error = "Internal server error"]

\* GET /api/designs: one entry for every stored design, with the length of
\* its component list.
ListDesigns ==
  /\ ~crashed
  /\ response' =
       [Status(200) EXCEPT !.body =
          [i \in 1..Cardinality({ d \in DesignIds : designs[d].exists }) |->
             LET d == CHOOSE x \in DesignIds :
                        /\ designs[x].exists
                        /\ Cardinality({ y \in DesignIds :
                                          designs[y].exists /\ y <= x }) = i
             IN [id |-> d,
                 componentCount |-> Len(heap[designs[d].components])]]]
  /\ sent' = << >>
  /\ UNCHANGED << analysis, returned >>
  /\ lastOp' = Op("list_designs", 0, 0)
  /\ UNCHANGED << designs, heap, clients, conn, sims, active, intervals,
                  timeouts, stopped, crashed >>

\* GET /api/designs/:id: the stored design.
GetDesign(id) ==
  /\ ~crashed
  /\ response' =
       IF ~DesignsGet(id).exists THEN NotFound
       ELSE [Status(200) EXCEPT !.body = heap[designs[id].components]]
  /\ sent' = << >>
  /\ UNCHANGED << analysis, returned >>
  /\ lastOp' = Op("get_design", 0, id)
  /\ UNCHANGED << designs, heap, clients, conn, sims, active, intervals,
                  timeouts, stopped, crashed >>

\* The format member of an export request.
ExportFormats == {"json", "spice", "verilog"}

\* generateSpiceNetlist(design) reads comp.properties.<key> for the types it
\* writes a line for: a TypeError when the component has no properties.
GenerateSpiceNetlistThrows(comps) ==
  \E i \in DOMAIN comps :
    /\ comps[i].type \in {"resistor", "capacitor", "inductor", "transistor"}
    /\ ~comps[i].hasProps

\* POST /api/designs/:id/export. An exception leaving the handler is
\* answered by the error middleware with status 500.
ExportDesign(id, format) ==
  /\ ~crashed
  /\ response' =
       IF ~DesignsGet(id).exists THEN NotFound
       ELSE IF format = "spice"
               /\ GenerateSpiceNetlistThrows(heap[designs[id].components])
       THEN ServerError
       ELSE [Status(200) EXCEPT !.body = heap[designs[id].components]]
  /\ sent' = << >>
  /\ UNCHANGED << analysis, returned >>
  /\ lastOp' = Op("export_design", 0, id)
  /\ UNCHANGED << designs, heap, clients, conn, sims, active, intervals,
                  timeouts, stopped, crashed >>

\* The loop of POST /api/designs/:id/simulate over a fresh simulator:
\* simulator.timeStep = i * timeStep; results.push(simulator.simulate()).
BatchResults(comps, connections, steps, stepSize, now) ==
  [i \in 1..steps |-> Simulate(comps, connections, (i - 1) * stepSize, now)]

\* POST /api/designs/:id/simulate. An exception leaving the handler is
\* answered by the error middleware with status 500.
SimulateDesign(id, steps, stepSize, now) ==
  /\ ~crashed
  /\ LET design == DesignsGet(id)
         results == BatchResults(heap[design.components], design.connections,
                                 steps, stepSize, now)
     IN response' =
          IF ~design.exists THEN NotFound
          ELSE IF \E i \in 1..steps : results[i].threw
          THEN ServerError
          ELSE [Status(200) EXCEPT !.results = results, !.steps = steps,
                                   !.timeStep = stepSize]
  /\ sent' = << >>
  /\ UNCHANGED << analysis, returned >>
  /\ lastOp' = Op("simulate_design", 0, id)
  /\ UNCHANGED << designs, heap, clients, conn, sims, active, intervals,
                  timeouts, stopped, crashed >>

---------------------------------------------------------------------------
(* The system *)

BatchSteps == 0..MaxBatchSteps

\* step sizes 0.001 (the default) and 1, in thousandths
StepSizes == {1, Milli}

\* The step size of a request that gives none: 0.001.
DefaultTimeStep == Milli

Next ==
  \/ \E c \in ClientIds : Connect(c)
  \/ \E c \in ClientIds : Close(c)
  \/ \E c \in ClientIds : InvalidMessage(c)
  \/ \E c \in ClientIds, d \in DesignIds \cup {UnknownDesign},
        config \in ConfigInputs : StartMessage(c, d, config)
  \/ \E c \in ClientIds : StopMessage(c)
  \/ \E c \in ClientIds, k \in UpdateComponentIds, p \in UpdateInputs :
        UpdateMessage(c, k, p)
  \/ \E s \in DOMAIN sims, now \in WallClock :
        sims[s].timeStep < MaxSteps * Milli /\ Tick(s, now)
  \/ \E s \in DOMAIN sims : AutoStop(s)
  \/ \E body \in DesignInputs : CreateDesign(body)
  \/ \E d \in DesignIds \cup {UnknownDesign}, body \in PutInputs :
        UpdateDesign(d, body)
  \/ \E d \in DesignIds \cup {UnknownDesign} : DeleteDesign(d)
  \/ \E d \in DesignIds \cup {UnknownDesign}, n \in 0..MaxSteps :
        SimulateDesign(d, n, DefaultTimeStep, 1000)

Spec == Init /\ [][Next]_vars

\* The HTTP interface alone: the design store with its read-only handlers,
\* and batch runs over every step count, step size and wall-clock time of
\* the model.
BatchNext ==
  \/ ListDesigns
  \/ \E d \in DesignIds \cup {UnknownDesign} : GetDesign(d)
  \/ \E d \in DesignIds \cup {UnknownDesign}, f \in ExportFormats :
        ExportDesign(d, f)
  \/ \E body \in DesignInputs : CreateDesign(body)
  \/ \E d \in DesignIds \cup {UnknownDesign}, body \in PutInputs :
        UpdateDesign(d, body)
  \/ \E d \in DesignIds \cup {UnknownDesign} : DeleteDesign(d)
  \/ \E d \in DesignIds \cup {UnknownDesign}, n \in BatchSteps,
        h \in StepSizes, now \in WallClock : SimulateDesign(d, n, h, now)

BatchSpec == Init /\ [][BatchNext]_vars

\* The streaming interface over stored designs, with sessions of up to
\* MaxStreamSteps ticks.
StreamNext ==
  \/ \E c \in ClientIds : Connect(c)
  \/ \E c \in ClientIds : Close(c)
  \/ \E body \in DesignInputs : CreateDesign(body)
  \/ \E c \in ClientIds, d \in DesignIds, config \in ConfigInputs :
        StartMessage(c, d, config)
  \/ \E c \in ClientIds : StopMessage(c)
  \/ \E s \in DOMAIN sims, now \in WallClock :
        sims[s].timeStep < MaxStreamSteps * Milli /\ Tick(s, now)
  \/ \E s \in DOMAIN sims : AutoStop(s)

StreamSpec == Init /\ [][StreamNext]_vars

\* analyzeComponent called on a transistor with a voltage and a current.
AnalyzeComponent(voltage, current) ==
  /\ analysis' = AnalyzeTransistor(voltage, current)
  /\ lastOp' = Op("analyzeComponent", 0, 0)
  /\ UNCHANGED << designs, heap, clients, conn, sims, active, intervals,
                  timeouts, stopped, sent, response, returned, crashed >>

\* voltages 0 to 6 in tenths, currents 0 to 0.15 in hundredths
Voltages == 0..MaxVolts

Currents == 0..MaxAmps

\* The analysis of a transistor alone, over the voltages and currents of
\* the model.
AnalyzeNext == \E v \in Voltages, i \in Currents : AnalyzeComponent(v, i)

AnalyzeSpec == Init /\ [][AnalyzeNext]_vars

\* calculateCurrent called on a transistor with a threshold property and a
\* voltage.
CalculateCurrentCall(threshold, voltage) ==
  /\ returned' = [fn |-> "calculateCurrent", threshold |-> threshold,
                  voltage |-> voltage,
                  current |-> TransistorCurrent(threshold, voltage)]
  /\ lastOp' = Op("calculateCurrent", 0, 0)
  /\ UNCHANGED << designs, heap, clients, conn, sims, active, intervals,
                  timeouts, stopped, sent, response, analysis, crashed >>

\* threshold properties: missing, 0.5, 0.7 and 1, in tenths
Thresholds == {Absent, 5, 7, 10}

\* The current of a transistor alone, over the thresholds and voltages of
\* the model.
CurrentNext ==
  \E th \in Thresholds, v \in Voltages : CalculateCurrentCall(th, v)

CurrentSpec == Init /\ [][CurrentNext]_vars

\* The numbers of the aggregates: an integer, NaN, or the -Infinity that
\* Math.max() returns without arguments.
Num(n) == [kind |-> "num", val |-> n]

NaN == [kind |-> "nan", val |-> 0]

NegInfinity == [kind |-> "-inf", val |-> 0]

\* x * y: NaN if an operand is NaN
Times(x, y) ==
  IF x.kind = "nan" \/ y.kind = "nan" THEN NaN ELSE Num(x.val * y.val)

\* x + y
Plus(x, y) ==
  IF x.kind = "nan" \/ y.kind = "nan" THEN NaN
  ELSE IF x.kind = "-inf" \/ y.kind = "-inf" THEN NegInfinity
  ELSE Num(x.val + y.val)

\* x || 0: NaN and 0 are falsy
OrZero(x) ==
  IF x.kind = "nan" \/ (x.kind = "num" /\ x.val = 0) THEN Num(0) ELSE x

\* x > 0 and x < 0: false for NaN
Positive(x) == x.kind = "num" /\ x.val > 0

Negative(x) == x.kind = "-inf" \/ (x.kind = "num" /\ x.val < 0)

\* Math.abs(x), of a number
Abs(x) == IF x.kind = "num" /\ x.val < 0 THEN Num(-x.val) ELSE x

\* Math.max(...xs): -Infinity without arguments, NaN if an argument is NaN
RECURSIVE MathMax(_)
MathMax(xs) ==
  IF Len(xs) = 0 THEN NegInfinity
  ELSE LET x == xs[Len(xs)]
           m == MathMax(SubSeq(xs, 1, Len(xs) - 1))
       IN IF x.kind = "nan" \/ m.kind = "nan" THEN NaN
          ELSE IF m.kind = "-inf" THEN x
          ELSE IF x.kind = "-inf" THEN m
          ELSE IF x.val > m.val THEN x ELSE m

\* nodes.filter(node => node.power > 0).reduce((sum, node) => sum + node.power, 0)
RECURSIVE TotalPowerIn(_)
TotalPowerIn(nodes) ==
  IF Len(nodes) = 0 THEN Num(0)
  ELSE LET node == nodes[Len(nodes)]
           sum == TotalPowerIn(SubSeq(nodes, 1, Len(nodes) - 1))
       IN IF Positive(node.power) THEN Plus(sum, node.power) ELSE sum

\* nodes.filter(node => node.power < 0).reduce((sum, node) => sum + Math.abs(node.power), 0)
RECURSIVE TotalPowerOut(_)
TotalPowerOut(nodes) ==
  IF Len(nodes) = 0 THEN Num(0)
  ELSE LET node == nodes[Len(nodes)]
           sum == TotalPowerOut(SubSeq(nodes, 1, Len(nodes) - 1))
       IN IF Negative(node.power) THEN Plus(sum, Abs(node.power)) ELSE sum

\* The number 0 as a quotient.
ZeroEfficiency == [num |-> 0, den |-> 1]

\* Mutant of CalculateEfficiency: the quotient is taken whatever the
\* incoming power is.
CalculateEfficiency_Unguarded(nodes) ==
  [num |-> 100 * TotalPowerOut(nodes).val, den |-> TotalPowerIn(nodes).val]

\* calculateEfficiency(nodes): (totalPowerOut / totalPowerIn) * 100 as the
\* quotient of two integers, 0 unless totalPowerIn > 0.
CalculateEfficiency(nodes) ==
  IF Positive(TotalPowerIn(nodes))
  THEN [num |-> 100 * TotalPowerOut(nodes).val, den |-> TotalPowerIn(nodes).val]
  ELSE ZeroEfficiency

\* nodeValues.reduce((sum, node) => sum + (node.power || 0), 0)
RECURSIVE TotalPower(_)
TotalPower(nodes) ==
  IF Len(nodes) = 0 THEN Num(0)
  ELSE Plus(TotalPower(SubSeq(nodes, 1, Len(nodes) - 1)),
            OrZero(nodes[Len(nodes)].power))

\* nodeValues.length > 0 ? Math.max(...nodeValues.map(n => n.voltage || 0)) : 0
MaxOf(nodes, member) ==
  IF Len(nodes) > 0
  THEN MathMax([i \in DOMAIN nodes |-> OrZero(nodes[i][member])])
  ELSE Num(0)

\* The node simulate() records for a component: the power is the product
\* of the voltage and the current.
NodeOf(voltage, current) ==
  [voltage |-> voltage, current |-> current, power |-> Times(voltage, current)]

\* The voltages of the nodes: negative, zero, positive, NaN.
NodeVoltages == { Num(-1), Num(0), Num(2), NaN }

\* The currents of the nodes: zero, positive, NaN.
NodeCurrents == { Num(0), Num(2), NaN }

NodeValues == { NodeOf(v, i) : v \in NodeVoltages, i \in NodeCurrents }

\* The largest number of nodes of a snapshot.
MaxNodes == 2

\* The node lists of at most n nodes.
NodeLists(n) == UNION { [1..k -> NodeValues] : k \in 0..n }

\* The performance members simulate() computes from the nodes of a
\* snapshot.
PerformanceCall(nodes) ==
  /\ returned' = [fn |-> "performance", nodes |-> nodes,
                  totalPower |-> TotalPower(nodes),
                  maxVoltage |-> MaxOf(nodes, "voltage"),
                  maxCurrent |-> MaxOf(nodes, "current"),
                  efficiency |-> CalculateEfficiency(nodes)]
  /\ lastOp' = Op("performance", 0, 0)
  /\ UNCHANGED << designs, heap, clients, conn, sims, active, intervals,
                  timeouts, stopped, sent, response, analysis, crashed >>

\* The aggregates alone, over the node lists of the model.
PerformanceNext ==
  \E nodes \in NodeLists(MaxNodes) : PerformanceCall(nodes)

PerformanceSpec == Init /\ [][PerformanceNext]_vars

---------------------------------------------------------------------------
(* Properties *)

IntervalsOf(c) == { s \in intervals : sims[s].client = c }

RunningOf(c) == { s \in DOMAIN sims : sims[s].client = c /\ sims[s].isRunning }

\* C1: every observer has at most one running session and at most one live
\* interval timer, whatever sequence of starts it has issued.
C1_OneTimerPerObserver ==
  \A c \in ClientIds :
    /\ Cardinality(IntervalsOf(c)) <= 1
    /\ Cardinality(RunningOf(c)) <= 1

\* C2: once stop has returned for an observer, no simulation_data message
\* is sent to that observer until a later start.
C2_NoDataAfterStop ==
  \A i \in DOMAIN sent :
    sent[i].type = "simulation_data" => ~stopped[sent[i].to]

\* C3: once an observer's connection has closed, its session is cleaned up
\* as by stop: not running, interval timer cancelled, not in the registry.
C3_CloseCleansUp ==
  \A c \in ClientIds :
    conn[c] = "closed" =>
      /\ ~HasSession(c)
      /\ IntervalsOf(c) = {}
      /\ RunningOf(c) = {}

\* C4: a session whose configured duration has elapsed (its auto-stop
\* timeout has fired) is stopped: interval timer cancelled, not running,
\* not in the registry.
C4_ElapsedSessionStopped ==
  \A s \in Elapsed :
    /\ s \notin intervals
    /\ ~sims[s].isRunning
    /\ \A c \in ClientIds : active[c].simulator # s

\* C5: update_component leaves the components of every stored design as
\* they were.
C5_StoredDesignUnchanged ==
  [][ lastOp'.op = "update_component" =>
        \A d \in DesignIds :
          designs[d].exists =>
            heap'[designs[d].components] = heap[designs[d].components] ]_vars

\* The snapshot holds, for every component of comps, the error records when
\* its evaluation fails and its computed records otherwise.
SnapshotComplete(snapshot, comps) ==
  /\ DOMAIN snapshot.nodes = CompIdsOf(comps)
  /\ DOMAIN snapshot.components = CompIdsOf(comps)
  /\ \A i \in DOMAIN comps :
       IF EvaluationFails(comps[i])
       THEN /\ snapshot.nodes[comps[i].id] = ErrorNode
            /\ snapshot.components[comps[i].id].status = "error"
       ELSE /\ snapshot.nodes[comps[i].id] =
                 ComputedNode(comps[i], snapshot.timestamp)
            /\ snapshot.components[comps[i].id] = ComputedAnalysis(comps[i])

\* C6: a component whose evaluation fails never aborts the snapshot: every
\* tick of a running session delivers a complete snapshot to its connected
\* observer, and no batch run ends in an exception.
C6_FailingComponentNeverAborts ==
  /\ lastOp.op = "simulate_design" => response.status \in {200, 404}
  /\ (lastOp.op = "tick" /\ lastOp.client \in clients) =>
       /\ Len(sent) = 1
       /\ sent[1].type = "simulation_data"
       /\ SnapshotComplete(sent[1].data, heap[sims[lastOp.arg].components])

\* C7: no failure while computing a tick terminates the process.
C7_ProcessSurvives == ~crashed

\* The state a rejected request must leave alone: the store, the registry,
\* the simulators and both kinds of timers.
Registry == << designs, heap, sims, active, intervals, timeouts >>

\* C8: a start or batch request naming a design id that is not in the store
\* is answered 'Design not found' and changes neither the registry, the
\* sessions nor the timers.
C8_UnknownDesignCreatesNothing ==
  [][ /\ (lastOp'.op = "start_simulation" /\ ~DesignsGet(lastOp'.arg).exists) =>
           /\ sent' = << ErrorMsg(lastOp'.client, "Design not found") >>
           /\ UNCHANGED Registry
      /\ (lastOp'.op = "simulate_design" /\ ~DesignsGet(lastOp'.arg).exists) =>
           /\ response' = NotFound
           /\ sent' = << >>
           /\ UNCHANGED Registry ]_vars

C8_Witness ==
  /\ lastOp.op = "start_simulation"
  /\ lastOp.arg = UnknownDesign
  /\ sent = << ErrorMsg(lastOp.client, "Design not found") >>
  /\ \E c \in ClientIds : HasSession(c) /\ c # lastOp.client
  /\ ~HasSession(lastOp.client)

\* C9: stop is idempotent. The stop of an active session marks it not
\* running, cancels its interval, removes it from the registry and sends one
\* simulation_stopped when the observer is connected; a stop that follows a
\* stop, or finds no session, changes nothing and sends nothing.
C9_StopIdempotent ==
  [][ lastOp'.op \in {"stop_simulation", "auto_stop"} =>
        LET c == lastOp'.client IN
          /\ stopped[c] => ~HasSession(c)
          /\ IF HasSession(c)
             THEN /\ ~sims'[active[c].simulator].isRunning
                  /\ active[c].interval \notin intervals'
                  /\ active'[c] = NoSession
                  /\ sent' = IF c \in clients THEN << StoppedMsg(c) >> ELSE << >>
             ELSE /\ sent' = << >>
                  /\ UNCHANGED << designs, heap, clients, conn, sims, active,
                                  intervals, crashed >> ]_vars

C9_Witness ==
  /\ lastOp.op = "stop_simulation"
  /\ stopped[lastOp.client]
  /\ sent = << >>
  /\ \E s \in DOMAIN sims :
       sims[s].client = lastOp.client /\ ~sims[s].isRunning /\ s \in Elapsed

\* C10: update_component for an observer without a session, or for a
\* component id its session does not have, changes no property and sends
\* nothing; component_updated is sent only after a merge into the session's
\* matching component.
C10_UnknownUpdateIsNoOp ==
  [][ lastOp'.op = "update_component" =>
        LET c == lastOp'.client
            k == lastOp'.arg
            ref == sims[active[c].simulator].components
            found == HasSession(c) /\ FindComponent(heap[ref], k) # 0
        IN /\ ~found => (sent' = << >> /\ heap' = heap /\ crashed' = crashed)
           /\ (\E i \in DOMAIN sent' : sent'[i].type = "component_updated") =>
                /\ found
                /\ sent' = << UpdatedMsg(c, k, sent'[1].properties) >>
                /\ heap'[ref][FindComponent(heap[ref], k)].properties =
                     ObjectAssign(heap[ref][FindComponent(heap[ref], k)].properties,
                                  sent'[1].properties) ]_vars

C10_Witness ==
  /\ lastOp.op = "update_component"
  /\ HasSession(lastOp.client)
  /\ FindComponent(heap[sims[active[lastOp.client].simulator].components],
                   lastOp.arg) = 0
  /\ sent = << >>

\* C11: a property merged by update_component is in the session's working
\* copy once the update is acknowledged, and every snapshot a tick delivers
\* is computed from the values the working copy of its session holds: the
\* resistance a resistor's law is evaluated with is the one of the working
\* copy (1000 when that one is missing or zero).
C11_UpdateUsedByLaterTicks ==
  /\ (lastOp.op = "update_component" /\ sent # << >>
       /\ sent[1].type = "component_updated") =>
        LET comps == heap[sims[active[lastOp.client].simulator].components]
        IN \E j \in DOMAIN comps :
             /\ comps[j].id = sent[1].componentId
             /\ \A k \in PropKeys :
                  sent[1].properties[k] # Absent =>
                    comps[j].properties[k] = sent[1].properties[k]
  /\ \A i \in DOMAIN sent :
       sent[i].type = "simulation_data" =>
         LET comps == heap[sims[sent[i].from].components]
         IN \A j \in DOMAIN comps :
              (comps[j].type = "resistor" /\ comps[j].hasProps) =>
                sent[i].data.nodes[comps[j].id].reads["resistance"] =
                  IF comps[j].properties["resistance"] \in {Absent, 0}
                  THEN 1000
                  ELSE comps[j].properties["resistance"]

\* A tick of a session delivers a snapshot whose resistor was evaluated with
\* the resistance 2000 that only an update_component can have put there.
C11_Witness ==
  /\ lastOp.op = "tick"
  /\ \E i \in DOMAIN sent :
       /\ sent[i].type = "simulation_data"
       /\ sent[i].to = lastOp.client
       /\ \E id \in DOMAIN sent[i].data.nodes :
            /\ sent[i].data.components[id].status = "computed"
            /\ sent[i].data.nodes[id].reads["resistance"] = 2000
\* A snapshot without nodes and components whose six performance fields are
\* the number 0.
ZeroSnapshot(snapshot) ==
  /\ DOMAIN snapshot.nodes = {}
  /\ DOMAIN snapshot.components = {}
  /\ snapshot.performance =
       [totalPower |-> 0, maxVoltage |-> 0, maxCurrent |-> 0,
        efficiency |-> 0, propagationDelay |-> 0, bandwidth |-> 0]

\* C12: every snapshot of a design without components, delivered by a tick
\* or returned by a batch run, has empty nodes and components and the six
\* performance fields 0, whatever the design's connections.
C12_EmptyDesignZeroSnapshot ==
  /\ \A i \in DOMAIN sent :
       (sent[i].type = "simulation_data"
        /\ heap[sims[sent[i].from].components] = << >>) =>
         ZeroSnapshot(sent[i].data)
  /\ (lastOp.op = "simulate_design" /\ response.status = 200
       /\ heap[designs[lastOp.arg].components] = << >>) =>
        \A i \in DOMAIN response.results : ZeroSnapshot(response.results[i])

\* A tick delivers the snapshot of a design that has a connection and no
\* component.
C12_Witness ==
  /\ lastOp.op = "tick"
  /\ \E i \in DOMAIN sent :
       /\ sent[i].type = "simulation_data"
       /\ heap[sims[sent[i].from].components] = << >>
       /\ sims[sent[i].from].connections = 1
\* C13: a batch run on a stored design answers with exactly as many
\* snapshots as the steps it was asked for (none for 0 steps), and creates
\* no session, no registry entry and no timer.
C13_BatchReturnsStepsSnapshots ==
  [][ (lastOp'.op = "simulate_design" /\ DesignsGet(lastOp'.arg).exists) =>
        /\ response'.status = 200
        /\ Len(response'.results) = response'.steps
        /\ UNCHANGED << sims, active, intervals, timeouts >> ]_vars
\* C14: in the answer of a batch run, the time argument of every time
\* dependent voltage term of the i-th snapshot (i from 0) is i * stepSize.
C14_BatchUsesSimulatedTime ==
  (lastOp.op = "simulate_design" /\ response.status = 200) =>
    \A i \in DOMAIN response.results :
      \A id \in DOMAIN response.results[i].nodes :
        (/\ response.results[i].components[id].status = "computed"
         /\ response.results[i].nodes[id].law \in
              {"transistor", "capacitor", "inductor"}) =>
          response.results[i].nodes[id].time = (i - 1) * response.timeStep

\* C15: the node values of a batch answer are those of every other run of
\* the same design, steps and step size, whatever the wall-clock time of
\* that run.
C15_BatchDeterministic ==
  (lastOp.op = "simulate_design" /\ response.status = 200) =>
    LET design == designs[lastOp.arg]
    IN \A now \in WallClock :
         LET other == BatchResults(heap[design.components],
                                   design.connections, response.steps,
                                   response.timeStep, now)
         IN \A i \in DOMAIN response.results :
              other[i].nodes = response.results[i].nodes
\* C16: a start_simulation for a stored design is answered by
\* simulation_started; every tick of a running session whose observer is
\* connected delivers a simulation_data to it, so the first tick of a session
\* that nothing stops delivers one; a stop_simulation of an observer with a
\* session is answered by simulation_stopped.
C16_StartedDataStopped ==
  [][ /\ (lastOp'.op = "start_simulation" /\ DesignsGet(lastOp'.arg).exists) =>
           /\ Len(sent') = 1
           /\ sent'[1].type = "simulation_started"
           /\ sent'[1].to = lastOp'.client
      /\ (lastOp'.op = "tick" /\ sims[lastOp'.arg].isRunning
           /\ lastOp'.client \in clients) =>
           \E i \in DOMAIN sent' :
             /\ sent'[i].type = "simulation_data"
             /\ sent'[i].to = lastOp'.client
      /\ (lastOp'.op = "stop_simulation" /\ HasSession(lastOp'.client)) =>
           sent' = << StoppedMsg(lastOp'.client) >> ]_vars
\* C17: the tick interval and the duration of every session, and those
\* its simulation_started acknowledgment reports, are the values the start
\* request gave or the defaults 100 and 30000: neither is ever missing.
C17_EffectiveConfigDefaults ==
  /\ \A c \in ClientIds :
       HasSession(c) =>
         /\ active[c].updateRate \in {DefaultUpdateRate, 500}
         /\ active[c].duration \in {DefaultDuration, 2000}
  /\ \A i \in DOMAIN sent :
       sent[i].type = "simulation_started" =>
         /\ sent[i].updateRate \in {DefaultUpdateRate, 500}
         /\ sent[i].duration \in {DefaultDuration, 2000}
\* C18: a tick of a running session whose observer is not connected sends
\* nothing, raises no error and leaves every simulator as it was, its step
\* counter included.
C18_TickWithoutObserverIsNoOp ==
  [][ (lastOp'.op = "tick" /\ sims[lastOp'.arg].isRunning
       /\ lastOp'.client \notin clients) =>
        /\ sent' = << >>
        /\ crashed' = crashed
        /\ sims' = sims ]_vars
\* C19: a start, stop, auto-stop or disconnect of one observer leaves the
\* registry entry, the simulators (running flag and step counter), the
\* interval timers and the timeouts of every other observer as they were.
C19_ObserversIndependent ==
  [][ lastOp'.op \in {"start_simulation", "stop_simulation", "auto_stop",
                      "close"} =>
        \A b \in ClientIds \ {lastOp'.client} :
          /\ active'[b] = active[b]
          /\ \A s \in DOMAIN sims :
               sims[s].client = b =>
                 /\ sims'[s] = sims[s]
                 /\ (s \in intervals') = (s \in intervals)
                 /\ (s \in timeouts') = (s \in timeouts)
          /\ \A s \in DOMAIN sims' \ DOMAIN sims : sims'[s].client # b
          /\ (b \in clients') = (b \in clients) ]_vars

\* An observer disconnects while another one has a running session with
\* a live interval timer.
C19_Witness ==
  /\ lastOp.op = "close"
  /\ \E b \in ClientIds \ {lastOp.client} :
       /\ HasSession(b)
       /\ sims[active[b].simulator].isRunning
       /\ active[b].interval \in intervals

\* C20: a message that cannot be parsed is answered by one error message on
\* the sender's socket; the sender stays connected and registered, and no
\* design, session, simulator or timer is created, changed or removed.
C20_InvalidMessageOnlyAnswered ==
  [][ lastOp'.op = "invalid_message" =>
        /\ Len(sent') = 1
        /\ sent'[1].type = "error"
        /\ sent'[1].to = lastOp'.client
        /\ conn'[lastOp'.client] = "open"
        /\ lastOp'.client \in clients'
        /\ UNCHANGED << clients, conn, designs, heap, sims, active, intervals,
                        timeouts, crashed >> ]_vars

\* The observer of a running session has sent an unparseable message and
\* got the error.
C20_Witness ==
  /\ lastOp.op = "invalid_message"
  /\ sent = << ErrorMsg(lastOp.client, "Invalid JSON") >>
  /\ HasSession(lastOp.client)
  /\ active[lastOp.client].interval \in intervals
\* C21: a POST stores the design under an id never used before and leaves
\* the other designs alone; a stored design stays stored through every
\* request but its DELETE, is in the list, and every by-id request on it
\* (GET, PUT, DELETE, simulate, export) succeeds, GET and export with the
\* stored components; every by-id request on an id that holds no design,
\* a deleted one included, is answered 404 'Design not found'.
C21_DesignStoreLifecycle ==
  [][ /\ lastOp'.op \in {"get_design", "put_design", "delete_design",
                          "simulate_design", "export_design"} =>
           IF DesignsGet(lastOp'.arg).exists
           THEN /\ response'.status \in {200, 204}
                /\ lastOp'.op \in {"get_design", "export_design"} =>
                     response'.body = heap[designs[lastOp'.arg].components]
           ELSE /\ response'.status = 404
                /\ response'.error = "Design not found"
      /\ lastOp'.op = "post_design" =>
           \E d \in DesignIds :
             /\ ~designs[d].used
             /\ designs'[d].exists
             /\ \A x \in DesignIds \ {d} : designs'[x] = designs[x]
      /\ lastOp'.op = "list_designs" =>
           /\ response'.status = 200
           /\ { response'.body[i].id : i \in DOMAIN response'.body } =
                { d \in DesignIds : designs[d].exists }
      /\ lastOp'.op # "delete_design" =>
           \A d \in DesignIds : designs[d].exists => designs'[d].exists
    ]_vars
\* C22: the propagation delay of every snapshot, delivered by a tick or
\* returned by a batch run, is 10 times the number of components plus 5
\* times the number of connections of the simulator that produced it.
C22_PropagationDelay ==
  /\ \A i \in DOMAIN sent :
       sent[i].type = "simulation_data" =>
         sent[i].data.performance.propagationDelay =
           Len(heap[sims[sent[i].from].components]) * 10
             + sims[sent[i].from].connections * 5
  /\ (lastOp.op = "simulate_design" /\ response.status = 200) =>
        \A i \in DOMAIN response.results :
          response.results[i].performance.propagationDelay =
            Len(heap[designs[lastOp.arg].components]) * 10
              + designs[lastOp.arg].connections * 5
\* C23: in the answer of a batch run on a stored design no model function
\* has raised (the request succeeds and no component carries the error
\* record), and every property a component's laws read and the component
\* does not have is read as its default: resistance 1000, capacitance 1 pF.
C23_MissingPropertyUsesDefault ==
  (lastOp.op = "simulate_design" /\ DesignsGet(lastOp.arg).exists) =>
    /\ response.status = 200
    /\ LET comps == heap[designs[lastOp.arg].components]
       IN \A i \in DOMAIN response.results, j \in DOMAIN comps :
            /\ response.results[i].components[comps[j].id].status # "error"
            /\ (comps[j].type = "resistor"
                 /\ comps[j].properties["resistance"] = Absent) =>
                 response.results[i].nodes[comps[j].id].reads["resistance"]
                   = 1000
            /\ (comps[j].type = "capacitor"
                 /\ comps[j].properties["capacitance"] = Absent) =>
                 response.results[i].nodes[comps[j].id].reads["capacitance"]
                   = 1
\* totalPower of the snapshot is the sum of the power of its nodes, every
\* node once; the power of a computed node is its voltage times its
\* current, and the current of a resistor is its voltage over the
\* resistance its law was evaluated with.
PowerBalanced(snapshot) ==
  IF DOMAIN snapshot.nodes = {}
  THEN snapshot.performance.totalPower = 0
  ELSE /\ DOMAIN snapshot.performance.totalPower.sumOf = DOMAIN snapshot.nodes
       /\ \A id \in DOMAIN snapshot.nodes :
            /\ snapshot.performance.totalPower.sumOf[id] =
                 snapshot.nodes[id].power
            /\ snapshot.components[id].status = "computed" =>
                 /\ snapshot.nodes[id].power.product = << "voltage", "current" >>
                 /\ snapshot.nodes[id].law = "resistor" =>
                      snapshot.nodes[id].current.voltageOver =
                        snapshot.nodes[id].reads["resistance"]

C25_TransistorStatus ==
  lastOp.op = "analyzeComponent" =>
    analysis.status =
      IF analysis.current > 10 THEN "overcurrent"
      ELSE IF analysis.voltage > 50 THEN "overvoltage"
      ELSE "normal"

\* Both thresholds are exceeded and the status is overcurrent.
C25_Witness ==
  /\ lastOp.op = "analyzeComponent"
  /\ analysis.voltage > 50
  /\ analysis.current > 10
  /\ analysis.status = "overcurrent"
\* C26: the auto-stop timer scheduled by a start stops only the session
\* that start created: when it fires, the running flag and the interval
\* timer of every other simulator, and the registry entry of every other
\* session, are as before.
C26_AutoStopOnlyOwnSession ==
  [][ lastOp'.op = "auto_stop" =>
        /\ \A t \in DOMAIN sims \ {lastOp'.arg} :
             /\ sims'[t].isRunning = sims[t].isRunning
             /\ (t \in intervals') = (t \in intervals)
        /\ \A c \in ClientIds :
             (HasSession(c) /\ active[c].simulator # lastOp'.arg) =>
               active'[c] = active[c] ]_vars
\* C27: an update_component of one observer leaves the component list
\* that the ticks of every other observer's simulator read as it was.
C27_UpdateOnlyOwnSession ==
  [][ lastOp'.op = "update_component" =>
        \A s \in DOMAIN sims :
          sims[s].client # lastOp'.client =>
            heap'[sims[s].components] = heap[sims[s].components] ]_vars
\* C28: a tick that delivers a snapshot delivers the one numbered by the
\* step counter of its simulator and advances that counter by exactly one;
\* a tick of a running session whose observer is connected delivers unless
\* the process ends; nothing else changes a step counter, and a new
\* simulator starts at 0. The snapshots of one session are thus numbered
\* 0, 1, 2, ... in the order of their delivery.
C28_TicksNumberSnapshots ==
  [][ /\ lastOp'.op = "tick" =>
           LET s == lastOp'.arg
           IN /\ \A i \in DOMAIN sent' :
                   sent'[i].type = "simulation_data" =>
                     /\ sent'[i].from = s
                     /\ sent'[i].data.timeStep = sims[s].timeStep
                     /\ sent'[i].data.timeStep % Milli = 0
                     /\ sims'[s].timeStep = sims[s].timeStep + Milli
              /\ (sims[s].isRunning /\ lastOp'.client \in clients
                   /\ ~crashed') =>
                   /\ Len(sent') = 1
                   /\ sent'[1].type = "simulation_data"
                   /\ sent'[1].to = lastOp'.client
              /\ \A t \in DOMAIN sims \ {s} :
                   sims'[t].timeStep = sims[t].timeStep
      /\ lastOp'.op # "tick" =>
           /\ \A t \in DOMAIN sims : sims'[t].timeStep = sims[t].timeStep
           /\ \A t \in DOMAIN sims' \ DOMAIN sims : sims'[t].timeStep = 0
    ]_vars

\* The third tick of a session has delivered the snapshot numbered 2.
C28_Witness ==
  /\ lastOp.op = "tick"
  /\ Len(sent) = 1
  /\ sent[1].type = "simulation_data"
  /\ sent[1].data.timeStep = 2 * Milli
  /\ sims[sent[1].from].timeStep = 3 * Milli
\* C29: the timeStep of every snapshot, delivered by a tick or returned by
\* a batch run, is a non-negative integer: a whole number of the model's
\* thousandths.
C29_TimeStepIsStepIndex ==
  /\ \A i \in DOMAIN sent :
       sent[i].type = "simulation_data" =>
         /\ sent[i].data.timeStep >= 0
         /\ sent[i].data.timeStep % Milli = 0
  /\ (lastOp.op = "simulate_design" /\ response.status = 200) =>
        \A i \in DOMAIN response.results :
          /\ response.results[i].timeStep >= 0
          /\ response.results[i].timeStep % Milli = 0
\* The bandwidth of the snapshot is the maximum of the frequency values its
\* nodes record: 0 without nodes, and otherwise the maximum over exactly
\* the recorded values.
BandwidthOfRecorded(snapshot) ==
  IF DOMAIN snapshot.nodes = {}
  THEN snapshot.performance.bandwidth = 0
  ELSE { snapshot.performance.bandwidth.maxOf[i] :
           i \in DOMAIN snapshot.performance.bandwidth.maxOf } =
       { snapshot.nodes[id].frequency : id \in DOMAIN snapshot.nodes }

\* C30: in every snapshot, delivered by a tick or returned by a batch run,
\* the bandwidth is the maximum of the frequency values recorded in the
\* nodes of that snapshot, those of error records included.
C30_BandwidthIsMaxRecordedFrequency ==
  /\ \A i \in DOMAIN sent :
       sent[i].type = "simulation_data" => BandwidthOfRecorded(sent[i].data)
  /\ (lastOp.op = "simulate_design" /\ response.status = 200) =>
        \A i \in DOMAIN response.results :
          BandwidthOfRecorded(response.results[i])
\* C31: the current of a transistor is the square-law current, computed
\* with the transistor's threshold property (0.7 when it has none), when
\* its voltage is above that threshold, and otherwise a leakage current of
\* at least 0.001.
C31_TransistorOwnThreshold ==
  lastOp.op = "calculateCurrent" =>
    LET threshold == IF returned.threshold = Absent THEN 7
                     ELSE returned.threshold
    IN IF returned.voltage > threshold
       THEN /\ returned.current.law = "square"
            /\ returned.current.vth = threshold
       ELSE /\ returned.current.law = "leakage"
            /\ returned.current.atLeast >= 1
\* C32: a PUT or a DELETE of a design leaves every simulator as it was:
\* the component list it ticks over (the array and its elements), its
\* connections, its step counter, its running flag and its interval timer,
\* and the registry entries.
C32_SessionKeepsCapturedLists ==
  [][ lastOp'.op \in {"put_design", "delete_design"} =>
        /\ active' = active
        /\ \A s \in DOMAIN sims :
             /\ sims'[s] = sims[s]
             /\ heap'[sims[s].components] = heap[sims[s].components]
             /\ (s \in intervals') = (s \in intervals) ]_vars

\* A PUT has replaced the components and the connections of a design that
\* a running session was created from.
C32_Witness ==
  /\ lastOp.op = "put_design"
  /\ response.status = 200
  /\ \E s \in DOMAIN sims :
       /\ sims[s].designId = lastOp.arg
       /\ sims[s].isRunning
       /\ s \in intervals
       /\ sims[s].components # designs[lastOp.arg].components
       /\ sims[s].connections # designs[lastOp.arg].connections
\* C33: a handler sends at most one message, and a simulation_data,
\* simulation_stopped or component_updated message goes to the connected
\* client the session belongs to: the client whose start created the
\* simulator of the snapshot, the client that asked to stop or whose
\* timeout fired, the client that asked for the update.
C33_SessionMessages == { "simulation_data", "simulation_stopped",
                         "component_updated" }

C33_OwnConnectionOnly ==
  /\ Len(sent) <= 1
  /\ \A i \in DOMAIN sent :
       sent[i].type \in C33_SessionMessages =>
         /\ sent[i].to \in clients
         /\ sent[i].to = lastOp.client
         /\ sent[i].type = "simulation_data" =>
              /\ lastOp.op = "tick"
              /\ sent[i].from = lastOp.arg
              /\ sims[sent[i].from].client = sent[i].to
         /\ sent[i].type = "simulation_stopped" =>
              \/ lastOp.op = "stop_simulation"
              \/ /\ lastOp.op = "auto_stop"
                 /\ sims[lastOp.arg].client = sent[i].to
         /\ sent[i].type = "component_updated" =>
              lastOp.op = "update_component"

\* A snapshot has been delivered to its client while another client is
\* connected and has a running session of its own.
C33_Witness ==
  /\ Len(sent) = 1
  /\ sent[1].type = "simulation_data"
  /\ \E b \in clients \ {sent[1].to} :
       /\ HasSession(b)
       /\ sims[active[b].simulator].isRunning
       /\ active[b].interval \in intervals
\* The sum of f over the members of S.
RECURSIVE C34_Sum(_, _)
C34_Sum(S, f) ==
  IF S = {} THEN 0
  ELSE LET i == CHOOSE j \in S : TRUE
       IN f[i] + C34_Sum(S \ {i}, f)

\* C34: the efficiency is 100 times the sum of |power| over the nodes of
\* negative power, over the sum of the power of the nodes of positive
\* power, and exactly 0 when no node has positive power; its divisor is
\* never 0, and with no node of positive power the total power and the
\* two maxima are numbers (not NaN, not -Infinity).
C34_Efficiency ==
  lastOp.op = "performance" =>
    LET nodes == returned.nodes
        power == [i \in DOMAIN nodes |-> nodes[i].power.val]
        pos == { i \in DOMAIN nodes :
                   nodes[i].power.kind = "num" /\ power[i] > 0 }
        neg == { i \in DOMAIN nodes :
                   nodes[i].power.kind = "num" /\ power[i] < 0 }
    IN /\ returned.efficiency.den # 0
       /\ pos # {} =>
            returned.efficiency =
              [num |-> 100 * C34_Sum(neg, [i \in neg |-> -power[i]]),
               den |-> C34_Sum(pos, power)]
       /\ pos = {} =>
            /\ returned.efficiency = [num |-> 0, den |-> 1]
            /\ returned.totalPower.kind = "num"
            /\ returned.maxVoltage.kind = "num"
            /\ returned.maxCurrent.kind = "num"

\* The aggregates have been computed for a snapshot with a node of
\* positive power and a node of negative power.
C34_Witness ==
  /\ lastOp.op = "performance"
  /\ \E i \in DOMAIN returned.nodes : Positive(returned.nodes[i].power)
  /\ \E i \in DOMAIN returned.nodes : Negative(returned.nodes[i].power)
  /\ returned.efficiency.num > 0
  /\ returned.efficiency.den > 0
===========================================================================
